---- MODULE Spec2Model ----
(***************************************************************************)
(* Model of src/bot.py: a Telegram diary bot (aiogram 3 + aiosqlite +      *)
(* APScheduler).  The state is the SQLite store (users, diary, reminders,  *)
(* feedback), the per-user FSM storage (state and data of MemoryStorage),  *)
(* the wall clock, the position of the running send_reminders job and the  *)
(* handler coroutines that are suspended on a database call.               *)
(*                                                                         *)
(* A message text is a sequence of one-character strings, so that len(),   *)
(* indexing, isdigit(), split() and int() are computed as Python computes  *)
(* them.  The Cyrillic button captions are written in ASCII.               *)
(***************************************************************************)
EXTENDS Integers, Sequences, FiniteSets, TLC

\* ------------------------------------------------------------------ bounds
MaxDay == 2          \* calendar dates 1..MaxDay
MaxMinute == 1       \* minutes of the day 00:00 .. 00:MaxMinute
MaxSecond == 1       \* seconds of the minute 0 .. MaxSecond
MaxDiary == 2        \* rows of the diary table
MaxFeedback == 1     \* rows of the feedback table
MaxInFlight == 2     \* handler coroutines suspended at the same time
MaxSent == 2         \* reminders counted per user and date
MaxLen == 4          \* characters of a recommendation
MaxChunk == 3        \* chunk sizes 1 .. MaxChunk

UserIds == {1, 2}

\* ------------------------------------------------------------- Python None
None == <<"None">>
NoState == "None"

\* ------------------------------------------------------------------- texts
CmdStart == <<"/", "s", "t", "a", "r", "t">>
CmdNewEntry == <<"/", "n", "e", "w", "_", "e", "n", "t", "r", "y">>
BtnNewEntry == <<"A", "d", "d", " ", "e", "n", "t", "r", "y">>
BtnFeedback == <<"F", "e", "e", "d", "b", "a", "c", "k">>
CmdGetRecommendation == <<"/", "g", "e", "t", "_", "r", "e", "c", "o", "m", "m", "e", "n", "d",
                          "a", "t", "i", "o", "n">>
BtnGetRecommendation == <<"G", "e", "t", " ", "r", "e", "c", "o", "m", "m", "e", "n", "d",
                          "a", "t", "i", "o", "n">>
TxtWord == <<"h", "i">>
TxtAge == <<"3", "0">>
TxtTime0 == <<"0", "0", ":", "0", "0">>
TxtTime1 == <<"0", "0", ":", "0", "1">>
TxtBadTime == <<"2", "5", ":", "0", "0">>

\* U+0660 ARABIC-INDIC DIGIT ZERO, a decimal digit outside ASCII, and
\* U+00B2 SUPERSCRIPT TWO, a digit that is not a decimal digit
ArabicZero == "ar0"
SuperscriptTwo == "sup2"

TxtAge07 == <<"0", "7">>
TxtAgeSuperscript == <<SuperscriptTwo>>

\* texts sent in answer to the request for a time of day
TimeInputs ==
    {<<h1, h2, sep, m1, m2>> :
        h1 \in {"2"}, h2 \in {"3", "4", SuperscriptTwo, ArabicZero},
        sep \in {":", "0"}, m1 \in {"5", "6"}, m2 \in {"9", "a"}}
    \cup {TxtTime0, TxtTime1, TxtBadTime,
          <<"1", "2", ":", "6", "0">>, <<"1", "2", "3", "0">>, <<"1", "2", ":", "3">>,
          <<"2", "3", ":", "5", "9">>, <<"0", "0", ":", "0", "0", "0">>,
          <<":", "0", "0", "0", "0">>, <<"0", "0", ":", ":", "0">>}

Texts == {CmdStart, CmdNewEntry, BtnNewEntry, BtnFeedback, CmdGetRecommendation,
          BtnGetRecommendation, TxtWord, TxtAge, TxtAge07, TxtAgeSuperscript}
             \cup TimeInputs

CallbackData == {"toggle_reminder_on", "toggle_reminder_off", "set_reminder_time"}

\* ------------------------------------------------------- string primitives
DigitChars == <<"0", "1", "2", "3", "4", "5", "6", "7", "8", "9">>

\* a character str.isdecimal() accepts: int() reads it as a digit
IsDecimalChar(c) == c = ArabicZero \/ \E i \in 1..10 : DigitChars[i] = c

\* a character str.isdigit() accepts: the decimal digits and the digits that
\* are written as superscripts and the like
IsDigitChar(c) == IsDecimalChar(c) \/ c = SuperscriptTwo

DigitValue(c) == IF c = ArabicZero THEN 0 ELSE (CHOOSE i \in 1..10 : DigitChars[i] = c) - 1

\* str.isdigit(): non-empty and every character a digit
isdigit(s) == Len(s) > 0 /\ \A i \in 1..Len(s) : IsDigitChar(s[i])

\* the number a string of digits denotes
RECURSIVE DecimalValue(_)
DecimalValue(s) == IF Len(s) = 0 THEN 0
                   ELSE 10 * DecimalValue(SubSeq(s, 1, Len(s) - 1)) + DigitValue(s[Len(s)])

\* a Python int object, kept apart from the strings and from None
IntObject(n) == <<"int", n>>

\* int(s) returns for a string of decimal digits and raises ValueError for a
\* string that holds another character
IntParses(s) == Len(s) > 0 /\ \A i \in 1..Len(s) : IsDecimalChar(s[i])

\* int(s) for a string of decimal digits
int(s) == IntObject(DecimalValue(s))

\* s.replace(":", "")
RECURSIVE replace_colon(_)
replace_colon(s) == IF Len(s) = 0 THEN <<>>
                    ELSE IF Head(s) = ":" THEN replace_colon(Tail(s))
                    ELSE <<Head(s)>> \o replace_colon(Tail(s))

\* s.split(":"): the sequence of the parts between the colons
RECURSIVE split_colon(_)
split_colon(s) ==
    IF \A i \in 1..Len(s) : s[i] # ":" THEN <<s>>
    ELSE LET k == CHOOSE i \in 1..Len(s) :
                      s[i] = ":" /\ \A j \in 1..(i - 1) : s[j] # ":"
         IN  <<SubSeq(s, 1, k - 1)>> \o split_colon(SubSeq(s, k + 1, Len(s)))

\* two-digit, zero-padded decimal, as strftime's %H and %M
TwoDigits(n) == <<DigitChars[(n \div 10) + 1], DigitChars[(n % 10) + 1]>>

\* datetime.now(moscow_tz).strftime("%H:%M") for minute m of the day
strftime(m) == TwoDigits(m \div 60) \o <<":">> \o TwoDigits(m % 60)

\* str(date) and sqlite3's date adapter both give date.isoformat()
isoformat(d) == <<"2", "0", "2", "4", "-", "0", "1", "-">> \o TwoDigits(d)

\* the date read once, when the program starts, in place of the tick's date
StrDate_AtStart(d) == isoformat(1)

\* the date object itself in place of str(current_date)
StrDate_DateObject(d) == <<"datetime.date">> \o isoformat(d)

StrDate(d) == isoformat(d)

AdaptDate(d) == isoformat(d)

\* aiogram's Command filter: the text's first word is the command
IsCommand(text, cmd) ==
    \/ text = cmd
    \/ /\ Len(text) > Len(cmd)
       /\ SubSeq(text, 1, Len(cmd)) = cmd
       /\ text[Len(cmd) + 1] = " "

\* --------------------------------------------------------------- FSM states
RegistrationForm_name == "RegistrationForm:name"
RegistrationForm_age == "RegistrationForm:age"
RegistrationForm_email == "RegistrationForm:email"
DiaryForm_situation == "DiaryForm:situation"
DiaryForm_thought == "DiaryForm:thought"
DiaryForm_emotion == "DiaryForm:emotion"
DiaryForm_reaction == "DiaryForm:reaction"
ReminderForm_time == "ReminderForm:time"
FeedbackForm_feedback == "FeedbackForm:feedback"

RegistrationStates == {RegistrationForm_name, RegistrationForm_age, RegistrationForm_email}
DiaryStates == {DiaryForm_situation, DiaryForm_thought, DiaryForm_emotion, DiaryForm_reaction}
FieldStates == RegistrationStates \cup DiaryStates \cup {ReminderForm_time, FeedbackForm_feedback}

\* the keys the handlers put into the FSM data with state.update_data
Keys == {"name", "age", "email", "situation", "thought", "emotion", "reaction"}

EmptyData == [k \in Keys |-> None]

\* ------------------------------------------------------------------- state
VARIABLES
    users,        \* table users: set of rows [id, name, age, email]
    diary,        \* table diary: sequence of rows, id = position (AUTOINCREMENT)
    reminders,    \* table reminders: set of rows [user_id, enabled, time, last_sent_date]
    feedback,     \* table feedback: sequence of rows [user_id, feedback]
    fsm_state,    \* MemoryStorage: state of each user
    fsm_data,     \* MemoryStorage: data of each user
    tasks,        \* per user, the handler tasks suspended on their database call
    now,          \* wall clock: minute of the day
    second,       \* wall clock: second of the minute
    today,        \* wall clock: date
    ticked,       \* the cron trigger (second=0) has fired in the current minute
    tick_pc,      \* send_reminders: "idle", "loop" (before send), "sent" (before UPDATE)
    tick_users,   \* send_reminders: users = await cursor.fetchall()
    tick_i,       \* send_reminders: index of the row the for loop is at
    tick_date,    \* send_reminders: current_date
    attempts,     \* the bot.send_message calls of the running (or last) tick, in order:
                  \* <<user_id, "ok" or "fail">>
    sent,         \* reminders delivered to each user by the ticks of date tick_date, up to MaxSent
    event         \* the last update handled: what arrived, which handler ran, what was replied

store == <<users, diary, reminders, feedback>>
fsm == <<fsm_state, fsm_data>>
clock == <<now, second, today, ticked>>
tick == <<tick_pc, tick_users, tick_i, tick_date, attempts, sent>>
vars == <<users, diary, reminders, feedback, fsm_state, fsm_data, tasks, now, second,
          today,          ticked, tick_pc, tick_users, tick_i, tick_date, attempts, sent, event>>

NoEvent == [kind |-> "none", user |-> 0, handler |-> "none", reply |-> "none",
            text |-> None]

\* text is the text of the answer where the model follows it, None elsewhere
Event(k, u, h, r) == [kind |-> k, user |-> u, handler |-> h, reply |-> r, text |-> None]

Init ==
    /\ users = {}
    /\ diary = <<>>
    /\ reminders = {}
    /\ feedback = <<>>
    /\ fsm_state = [u \in UserIds |-> NoState]
    /\ fsm_data = [u \in UserIds |-> EmptyData]
    /\ tasks = [u \in UserIds |-> <<>>]
    /\ now = 0
    /\ second = 0
    /\ today = 1
    /\ ticked = FALSE
    /\ tick_pc = "idle"
    /\ tick_users = <<>>
    /\ tick_i = 1
    /\ tick_date = 1
    /\ attempts = <<>>
    /\ sent = [u \in UserIds |-> 0]
    /\ event = NoEvent

\* ------------------------------------------------------------------- store
\* SELECT ... FROM users WHERE id = ?
SelectUser(u) == {r \in users : r.id = u}

\* SELECT ... FROM reminders WHERE user_id = ?
SelectReminder(u) == {r \in reminders : r.user_id = u}

\* SQLite enforces FOREIGN KEY clauses only after PRAGMA foreign_keys = ON,
\* which no aiosqlite.connect(DB_PATH) of the program issues.
ForeignKeysEnforced == FALSE

\* whether an INSERT of a row that references users(id) = u is accepted
ForeignKeyOk(u) == ForeignKeysEnforced => SelectUser(u) # {}

\* a plain INSERT into a table without the primary key
InsertOrReplaceReminder_Adds(u, enabled, time) ==
    reminders \cup {[user_id |-> u, enabled |-> enabled, time |-> time,
                     last_sent_date |-> None]}

\* an upsert that sets time and leaves enabled of an existing row as it is
InsertOrReplaceReminder_KeepsEnabled(u, enabled, time) ==
    {r \in reminders : r.user_id # u}
        \cup {[user_id |-> u,
               enabled |-> IF \E r \in reminders : r.user_id = u
                           THEN (CHOOSE r \in reminders : r.user_id = u).enabled
                           ELSE enabled,
               time |-> time, last_sent_date |-> None]}

\* INSERT OR REPLACE INTO reminders (user_id, enabled[, time]): the row with the
\* same primary key is deleted and the new row inserted; a column that is not
\* named gets its default, NULL for time and last_sent_date.
InsertOrReplaceReminder(u, enabled, time) ==
    {r \in reminders : r.user_id # u}
        \cup {[user_id |-> u, enabled |-> enabled, time |-> time, last_sent_date |-> None]}

\* UPDATE reminders SET last_sent_date = ? WHERE user_id = ?
UpdateLastSentDate(u, d) ==
    {IF r.user_id = u THEN [r EXCEPT !.last_sent_date = AdaptDate(d)] ELSE r : r \in reminders}

\* DEFAULT CURRENT_TIMESTAMP: the date and the time of day, to the second
CURRENT_TIMESTAMP == <<today, now, second>>

\* INSERT INTO diary (user_id, situation, thought, emotion, reaction)
DiaryRow(u, user_data) ==
    [id |-> Len(diary) + 1, user_id |-> u, situation |-> user_data["situation"],
     thought |-> user_data["thought"], emotion |-> user_data["emotion"],
     reaction |-> user_data["reaction"], recommendation |-> None,
     created_at |-> CURRENT_TIMESTAMP]

\* the INSERT with user_data["email"] and user_data["name"] in each other's place
UserRow_Swapped(u, user_data) ==
    [id |-> u, name |-> user_data["email"], age |-> user_data["age"],
     email |-> user_data["name"]]

\* INSERT INTO users (id, name, age, email)
UserRow(u, user_data) ==
    [id |-> u, name |-> user_data["name"], age |-> user_data["age"],
     email |-> user_data["email"]]

\* -------------------------------------------------------------- middleware
\* RegistrationMiddleware is registered with dp.update.middleware.register, so
\* the event it is called with is the Update, never the Message inside it.
EventIsMessage == FALSE

\* RegistrationMiddleware.__call__: "drop" when it answers and returns,
\* "pass" when it calls the handler
RegistrationMiddleware(u, text) ==
    IF EventIsMessage /\ text # CmdStart
    THEN IF fsm_state[u] \in RegistrationStates THEN "pass"
         ELSE IF SelectUser(u) = {} THEN "drop"
         ELSE "pass"
    ELSE "pass"

\* ----------------------------------------------------------------- routing
\* The message handlers in the order of their registration: the dispatcher
\* calls the first one whose filter accepts the message.
\* The handlers registered between process_reaction and process_reminder_time
\* accept other captions, /get_recommendation and replies to a GigaChat
\* message, none of which is among Texts.
Route(st, text) ==
    IF IsCommand(text, CmdStart) THEN "cmd_start"
    ELSE IF st = RegistrationForm_name THEN "process_name"
    ELSE IF st = RegistrationForm_age THEN "process_age"
    ELSE IF st = RegistrationForm_email THEN "process_email"
    ELSE IF IsCommand(text, CmdNewEntry) THEN "cmd_new_entry"
    ELSE IF text = BtnNewEntry THEN "handle_menu_new_entry"
    ELSE IF st = DiaryForm_situation THEN "process_situation"
    ELSE IF st = DiaryForm_thought THEN "process_thought"
    ELSE IF st = DiaryForm_emotion THEN "process_emotion"
    ELSE IF st = DiaryForm_reaction THEN "process_reaction"
    ELSE IF text = BtnGetRecommendation THEN "handle_menu_get_recommendation"
    ELSE IF IsCommand(text, CmdGetRecommendation) THEN "cmd_get_recommendation"
    ELSE IF st = ReminderForm_time THEN "process_reminder_time"
    ELSE IF text = BtnFeedback THEN "handle_menu_feedback"
    ELSE IF st = FeedbackForm_feedback THEN "process_feedback"
    ELSE "unhandled"

\* what becomes of a message of user u: the handler called, or "not_registered"
Dispatch(u, text) ==
    IF RegistrationMiddleware(u, text) = "drop" THEN "not_registered"
    ELSE Route(fsm_state[u], text)

\* ------------------------------------------------------------ FSM context
\* await state.set_state(s)
set_state(u, s) == [fsm_state EXCEPT ![u] = s]

\* await state.update_data(k=v)
update_data(u, k, v) == [fsm_data EXCEPT ![u][k] = v]

\* user_data[k] raises KeyError for a key that was never put
HasKeys(user_data, ks) == \A k \in ks : user_data[k] # None

\* await state.clear()
clear(u) == /\ fsm_state' = set_state(u, NoState)
            /\ fsm_data' = [fsm_data EXCEPT ![u] = EmptyData]

\* a handler coroutine suspended on its database call, with the user_data it
\* read before the call
Task(h, user_data) == [handler |-> h, user_data |-> user_data]

RECURSIVE Suspended(_)
Suspended(us) == IF us = {} THEN 0
                 ELSE LET u == CHOOSE x \in us : TRUE
                      IN  Len(tasks[u]) + Suspended(us \ {u})

\* ------------------------------------------------------- message handlers
\* No handler runs: the middleware answered and returned, or no filter matched.
NotHandled(u, text) ==
    /\ Dispatch(u, text) \in {"not_registered", "unhandled"}
    /\ event' = Event("message", u, Dispatch(u, text),
                      IF Dispatch(u, text) = "not_registered" THEN "not_registered" ELSE "none")
    /\ UNCHANGED <<store, fsm, tasks, clock, tick>>

cmd_start(u, text) ==
    /\ Dispatch(u, text) = "cmd_start"
    /\ IF SelectUser(u) = {}
       THEN /\ fsm_state' = set_state(u, RegistrationForm_name)
            /\ event' = Event("message", u, "cmd_start", "ask_name")
       ELSE /\ fsm_state' = fsm_state
            /\ event' = Event("message", u, "cmd_start", "already_registered")
    /\ UNCHANGED <<store, fsm_data, tasks, clock, tick>>

process_name(u, text) ==
    /\ Dispatch(u, text) = "process_name"
    /\ fsm_data' = update_data(u, "name", text)
    /\ fsm_state' = set_state(u, RegistrationForm_age)
    /\ event' = Event("message", u, "process_name", "ask_age")
    /\ UNCHANGED <<store, tasks, clock, tick>>

\* int(message.text) raises ValueError for a text that isdigit() accepts and
\* int() does not: the exception leaves the handler
process_age(u, text) ==
    /\ Dispatch(u, text) = "process_age"
    /\ IF ~isdigit(text)
       THEN /\ event' = Event("message", u, "process_age", "bad_age")
            /\ UNCHANGED fsm
       ELSE IF ~IntParses(text)
       THEN /\ event' = Event("message", u, "process_age", "exception")
            /\ UNCHANGED fsm
       ELSE /\ fsm_data' = update_data(u, "age", int(text))
            /\ fsm_state' = set_state(u, RegistrationForm_email)
            /\ event' = Event("message", u, "process_age", "ask_email")
    /\ UNCHANGED <<store, tasks, clock, tick>>

\* process_email from its INSERT on, with the user_data it read: a second row
\* with the same primary key is an IntegrityError, which ends the handler
\* before state.clear()
process_email_insert(u, user_data) ==
    IF HasKeys(user_data, {"name", "age", "email"}) /\ SelectUser(u) = {}
    THEN /\ users' = users \cup {UserRow(u, user_data)}
         /\ clear(u)
         /\ event' = Event("message", u, "process_email", "registered")
    ELSE /\ users' = users
         /\ fsm_state' = fsm_state
         /\ fsm_data' = [fsm_data EXCEPT ![u] = user_data]
         /\ event' = Event("message", u, "process_email", "error")

process_email(u, text) ==
    /\ Dispatch(u, text) = "process_email"
    /\ process_email_insert(u, update_data(u, "email", text)[u])
    /\ UNCHANGED <<diary, reminders, feedback, tasks, clock, tick>>

cmd_new_entry(u, text) ==
    /\ Dispatch(u, text) = "cmd_new_entry"
    /\ fsm_state' = set_state(u, DiaryForm_situation)
    /\ event' = Event("message", u, "cmd_new_entry", "ask_situation")
    /\ UNCHANGED <<store, fsm_data, tasks, clock, tick>>

handle_menu_new_entry(u, text) ==
    /\ Dispatch(u, text) = "handle_menu_new_entry"
    /\ fsm_state' = set_state(u, DiaryForm_situation)
    /\ event' = Event("message", u, "handle_menu_new_entry", "ask_situation")
    /\ UNCHANGED <<store, fsm_data, tasks, clock, tick>>

\* process_situation with set_state(DiaryForm.emotion)
process_situation_skips(u, text) ==
    /\ Dispatch(u, text) = "process_situation"
    /\ fsm_data' = update_data(u, "situation", text)
    /\ fsm_state' = set_state(u, DiaryForm_emotion)
    /\ event' = Event("message", u, "process_situation", "ask_thought")
    /\ UNCHANGED <<store, tasks, clock, tick>>

process_situation(u, text) ==
    /\ Dispatch(u, text) = "process_situation"
    /\ fsm_data' = update_data(u, "situation", text)
    /\ fsm_state' = set_state(u, DiaryForm_thought)
    /\ event' = Event("message", u, "process_situation", "ask_thought")
    /\ UNCHANGED <<store, tasks, clock, tick>>

process_thought(u, text) ==
    /\ Dispatch(u, text) = "process_thought"
    /\ fsm_data' = update_data(u, "thought", text)
    /\ fsm_state' = set_state(u, DiaryForm_emotion)
    /\ event' = Event("message", u, "process_thought", "ask_emotion")
    /\ UNCHANGED <<store, tasks, clock, tick>>

process_emotion(u, text) ==
    /\ Dispatch(u, text) = "process_emotion"
    /\ fsm_data' = update_data(u, "emotion", text)
    /\ fsm_state' = set_state(u, DiaryForm_reaction)
    /\ event' = Event("message", u, "process_emotion", "ask_reaction")
    /\ UNCHANGED <<store, tasks, clock, tick>>

\* process_reaction from its INSERT on, with the user_data it read; an
\* exception ends the handler before state.clear() and leaves the data as kept
process_reaction_insert(u, user_data, kept) ==
    /\ Len(diary) < MaxDiary
    /\ IF HasKeys(user_data, {"situation", "thought", "emotion", "reaction"}) /\ ForeignKeyOk(u)
       THEN /\ diary' = Append(diary, DiaryRow(u, user_data))
            /\ clear(u)
            /\ event' = Event("message", u, "process_reaction", "entry_saved")
       ELSE /\ diary' = diary
            /\ fsm_state' = fsm_state
            /\ fsm_data' = kept
            /\ event' = Event("message", u, "process_reaction", "error")

process_reaction(u, text) ==
    /\ Dispatch(u, text) = "process_reaction"
    /\ process_reaction_insert(u, update_data(u, "reaction", text)[u],
                               update_data(u, "reaction", text))
    /\ UNCHANGED <<users, reminders, feedback, tasks, clock, tick>>

\* the range check with hours <= 24
ValidReminderTime_Hour24(reminder_time) ==
    /\ ~(\/ Len(reminder_time) # 5
         \/ reminder_time[3] # ":"
         \/ ~isdigit(replace_colon(reminder_time)))
    /\ LET parts == split_colon(reminder_time)
           hours == DecimalValue(parts[1])
           minutes == DecimalValue(parts[2])
       IN  /\ Len(parts) = 2
           /\ IntParses(parts[1]) /\ IntParses(parts[2])
           /\ 0 <= hours /\ hours <= 24 /\ 0 <= minutes /\ minutes < 60

\* the checks of process_reminder_time on message.text; map(int, ...) raises
\* ValueError for a part int() does not read, and the unpacking for a number
\* of parts other than two
ValidReminderTime(reminder_time) ==
    /\ ~(\/ Len(reminder_time) # 5
         \/ reminder_time[3] # ":"
         \/ ~isdigit(replace_colon(reminder_time)))
    /\ LET parts == split_colon(reminder_time)
           hours == DecimalValue(parts[1])
           minutes == DecimalValue(parts[2])
       IN  /\ Len(parts) = 2
           /\ IntParses(parts[1]) /\ IntParses(parts[2])
           /\ 0 <= hours /\ hours < 24 /\ 0 <= minutes /\ minutes < 60

\* a ValueError is caught and answered; the session is left as it is
process_reminder_time(u, text) ==
    /\ Dispatch(u, text) = "process_reminder_time"
    /\ IF ValidReminderTime(text) /\ ForeignKeyOk(u)
       THEN /\ reminders' = InsertOrReplaceReminder(u, 1, text)
            /\ clear(u)
            /\ event' = Event("message", u, "process_reminder_time", "time_set")
       ELSE /\ event' = Event("message", u, "process_reminder_time",
                              IF ValidReminderTime(text) THEN "error" ELSE "bad_time")
            /\ UNCHANGED <<reminders, fsm>>
    /\ UNCHANGED <<users, diary, feedback, tasks, clock, tick>>

handle_menu_feedback(u, text) ==
    /\ Dispatch(u, text) = "handle_menu_feedback"
    /\ fsm_state' = set_state(u, FeedbackForm_feedback)
    /\ event' = Event("message", u, "handle_menu_feedback", "ask_feedback")
    /\ UNCHANGED <<store, fsm_data, tasks, clock, tick>>

process_feedback(u, text) ==
    /\ Dispatch(u, text) = "process_feedback"
    /\ Len(feedback) < MaxFeedback
    /\ IF ForeignKeyOk(u)
       THEN /\ feedback' = Append(feedback, [user_id |-> u, feedback |-> text])
            /\ clear(u)
            /\ event' = Event("message", u, "process_feedback", "thanks")
       ELSE /\ event' = Event("message", u, "process_feedback", "error")
            /\ UNCHANGED <<feedback, fsm>>
    /\ UNCHANGED <<users, diary, reminders, tasks, clock, tick>>

\* ------------------------------------------------- the store write fails
\* db.execute or db.commit of a commit step raises an sqlite3 error (the
\* database file is locked or cannot be written).  The connection is closed
\* on the way out of the async with block and nothing of it is committed; the
\* exception is no ValueError, it leaves the handler before state.clear().
process_email_fails(u, text) ==
    /\ Dispatch(u, text) = "process_email"
    /\ HasKeys(update_data(u, "email", text)[u], {"name", "age", "email"})
    /\ fsm_data' = update_data(u, "email", text)
    /\ event' = Event("message", u, "process_email", "store_error")
    /\ UNCHANGED <<store, fsm_state, tasks, clock, tick>>

\* process_reaction with state.clear() ahead of the write
process_reaction_fails_cleared(u, text) ==
    /\ Dispatch(u, text) = "process_reaction"
    /\ HasKeys(update_data(u, "reaction", text)[u],
               {"situation", "thought", "emotion", "reaction"})
    /\ clear(u)
    /\ event' = Event("message", u, "process_reaction", "store_error")
    /\ UNCHANGED <<store, tasks, clock, tick>>

process_reaction_fails(u, text) ==
    /\ Dispatch(u, text) = "process_reaction"
    /\ HasKeys(update_data(u, "reaction", text)[u],
               {"situation", "thought", "emotion", "reaction"})
    /\ fsm_data' = update_data(u, "reaction", text)
    /\ event' = Event("message", u, "process_reaction", "store_error")
    /\ UNCHANGED <<store, fsm_state, tasks, clock, tick>>

process_reminder_time_fails(u, text) ==
    /\ Dispatch(u, text) = "process_reminder_time"
    /\ ValidReminderTime(text)
    /\ event' = Event("message", u, "process_reminder_time", "store_error")
    /\ UNCHANGED <<store, fsm, tasks, clock, tick>>

process_feedback_fails(u, text) ==
    /\ Dispatch(u, text) = "process_feedback"
    /\ event' = Event("message", u, "process_feedback", "store_error")
    /\ UNCHANGED <<store, fsm, tasks, clock, tick>>

\* ------------------------------------------- handlers as concurrent tasks
\* dp.start_polling handles every update in a task of its own, and a handler
\* gives up the event loop at its database call.  process_reaction up to
\* aiosqlite.connect: routed by the state read now, it puts the reaction and
\* reads user_data.
process_reaction_await(u, text) ==
    /\ Dispatch(u, text) = "process_reaction"
    /\ Suspended(UserIds) < MaxInFlight
    /\ fsm_data' = update_data(u, "reaction", text)
    /\ tasks' = [tasks EXCEPT ![u] = Append(@, Task("process_reaction",
                                                   update_data(u, "reaction", text)[u]))]
    /\ event' = Event("message", u, "process_reaction", "none")
    /\ UNCHANGED <<store, fsm_state, clock, tick>>

\* process_reaction from aiosqlite.connect on
process_reaction_resume(u, i) ==
    /\ i \in 1..Len(tasks[u])
    /\ tasks[u][i].handler = "process_reaction"
    /\ tasks' = [tasks EXCEPT ![u] = SubSeq(@, 1, i - 1) \o SubSeq(@, i + 1, Len(@))]
    /\ process_reaction_insert(u, tasks[u][i].user_data, fsm_data)
    /\ UNCHANGED <<users, reminders, feedback, clock, tick>>

\* ---------------------------------------------------------- recommendation
\* def split_message(message, chunk_size = 4000):
\*     [message[i:i + chunk_size] for i in range(0, len(message), chunk_size)]
chunk_size == 4000

\* the list comprehension with the start of the last slice left out of the range
split_message_short(message, n) ==
    [k \in 1..(Len(message) \div n) |->
        SubSeq(message, (k - 1) * n + 1, k * n)]

split_message(message, n) ==
    [k \in 1..((Len(message) + n - 1) \div n) |->
        SubSeq(message, (k - 1) * n + 1,
               IF k * n < Len(message) THEN k * n ELSE Len(message))]

\* 'YYYY-MM-DD HH:MM:SS' < 'YYYY-MM-DD HH:MM:SS' as SQLite compares TEXT
TimestampBefore(a, b) ==
    \/ a[1] < b[1]
    \/ a[1] = b[1] /\ a[2] < b[2]
    \/ a[1] = b[1] /\ a[2] = b[2] /\ a[3] < b[3]

\* SELECT ... FROM diary WHERE user_id = ? ORDER BY created_at DESC LIMIT 1:
\* the ids of the rows the query may return.  Which of several rows with the
\* same created_at comes first is not determined by the statement.
get_last_diary_entry(u) ==
    {i \in 1..Len(diary) :
        /\ diary[i].user_id = u
        /\ \A j \in 1..Len(diary) :
               diary[j].user_id = u => ~TimestampBefore(diary[i].created_at, diary[j].created_at)}

\* a text GigaChat answers with
Recommendations == {<<"o", "k">>}

\* generate_prompt: the f-string puts the four fields, in this order, each
\* after its label, into a fixed text
generate_prompt(situation, thought, emotion, reaction) ==
    <<"Situation: ", situation, "Thought: ", thought, "Emotion: ", emotion,
      "Reaction: ", reaction>>

\* cmd_get_recommendation suspended in get_recommendation_with_memory
\* ("gateway") or in the loop over messages ("send"), with the entry_id and
\* the prompt made of the row that get_last_diary_entry returned
RecommendationTask(entry_id) ==
    [handler |-> "cmd_get_recommendation", entry_id |-> entry_id, pc |-> "gateway",
     prompt |-> generate_prompt(diary[entry_id].situation, diary[entry_id].thought,
                                diary[entry_id].emotion, diary[entry_id].reaction),
     recommendation |-> None, chunk_size |-> 0, messages |-> <<>>, answered |-> <<>>]

RemoveTask(u, i) ==
    [tasks EXCEPT ![u] = SubSeq(@, 1, i - 1) \o SubSeq(@, i + 1, Len(@))]

AtRecommendation(u, i, pc) ==
    /\ i \in 1..Len(tasks[u])
    /\ tasks[u][i].handler = "cmd_get_recommendation"
    /\ tasks[u][i].pc = pc

\* the command, and the menu button that answers and then calls it: up to
\* the request to GigaChat
cmd_get_recommendation(u, text) ==
    /\ Dispatch(u, text) \in {"cmd_get_recommendation", "handle_menu_get_recommendation"}
    /\ IF get_last_diary_entry(u) = {}
       THEN /\ event' = Event("message", u, Dispatch(u, text), "no_entries")
            /\ UNCHANGED tasks
       ELSE /\ Suspended(UserIds) < MaxInFlight
            /\ \E entry_id \in get_last_diary_entry(u) :
                  tasks' = [tasks EXCEPT ![u] = Append(@, RecommendationTask(entry_id))]
            /\ event' = Event("message", u, Dispatch(u, text), "none")
    /\ UNCHANGED <<store, fsm, clock, tick>>

\* str(e) of what the request to GigaChat raises
GatewayErrors == {"timed out", "401 Unauthorized"}

\* raise Exception(f"Ошибка при запросе к GigaChat: {e}"): the text of the
\* exception, as the parts the f-string puts together
WrappedError(e) == <<"Error on the request to GigaChat: ", e>>

\* f"Произошла ошибка при запросе к GigaChat: {e}"
ErrorAnswer(e) == <<"An error occurred on the request to GigaChat: ">> \o e

\* the request fails and the failure is written to the entry
get_recommendation_with_memory_raises_saved(u, i) ==
    /\ AtRecommendation(u, i, "gateway")
    /\ diary' = [diary EXCEPT ![tasks[u][i].entry_id].recommendation = <<"e", "r", "r">>]
    /\ tasks' = RemoveTask(u, i)
    /\ \E e \in GatewayErrors :
          event' = [Event("message", u, "cmd_get_recommendation", "gateway_error")
                       EXCEPT !.text = ErrorAnswer(WrappedError(e))]
    /\ UNCHANGED <<users, reminders, feedback, fsm, clock, tick>>

\* the request fails: get_recommendation_with_memory raises, the except
\* branch of cmd_get_recommendation answers with the error
get_recommendation_with_memory_raises(u, i) ==
    /\ AtRecommendation(u, i, "gateway")
    /\ tasks' = RemoveTask(u, i)
    /\ \E e \in GatewayErrors :
          event' = [Event("message", u, "cmd_get_recommendation", "gateway_error")
                       EXCEPT !.text = ErrorAnswer(WrappedError(e))]
    /\ UNCHANGED <<store, fsm, clock, tick>>

\* the request returns, with UPDATE diary SET recommendation = ? WHERE user_id = ?
get_recommendation_with_memory_returns_user(u, i, recommendation, n) ==
    /\ AtRecommendation(u, i, "gateway")
    /\ diary' = [k \in 1..Len(diary) |->
                    IF diary[k].user_id = u
                    THEN [diary[k] EXCEPT !.recommendation = recommendation]
                    ELSE diary[k]]
    /\ tasks' = [tasks EXCEPT ![u][i] =
                    [@ EXCEPT !.pc = "send", !.recommendation = recommendation,
                              !.chunk_size = n,
                              !.messages = split_message(recommendation, n)]]
    /\ event' = Event("message", u, "cmd_get_recommendation", "none")
    /\ UNCHANGED <<users, reminders, feedback, fsm, clock, tick>>

\* the request returns: UPDATE diary SET recommendation = ? WHERE id = ?,
\* then messages = split_message(recommendation)
get_recommendation_with_memory_returns(u, i, recommendation, n) ==
    /\ AtRecommendation(u, i, "gateway")
    /\ diary' = [diary EXCEPT ![tasks[u][i].entry_id].recommendation = recommendation]
    /\ tasks' = [tasks EXCEPT ![u][i] =
                    [@ EXCEPT !.pc = "send", !.recommendation = recommendation,
                              !.chunk_size = n,
                              !.messages = split_message(recommendation, n)]]
    /\ event' = Event("message", u, "cmd_get_recommendation", "none")
    /\ UNCHANGED <<users, reminders, feedback, fsm, clock, tick>>

\* for msg in messages: await message.answer(msg)
cmd_get_recommendation_answer(u, i) ==
    /\ AtRecommendation(u, i, "send")
    /\ Len(tasks[u][i].answered) < Len(tasks[u][i].messages)
    /\ tasks' = [tasks EXCEPT ![u][i].answered =
                    Append(@, tasks[u][i].messages[Len(@) + 1])]
    /\ event' = Event("message", u, "cmd_get_recommendation", "recommendation")
    /\ UNCHANGED <<store, fsm, clock, tick>>

\* the loop has ended
cmd_get_recommendation_return(u, i) ==
    /\ AtRecommendation(u, i, "send")
    /\ Len(tasks[u][i].answered) = Len(tasks[u][i].messages)
    /\ tasks' = RemoveTask(u, i)
    /\ event' = Event("message", u, "cmd_get_recommendation", "returned")
    /\ UNCHANGED <<store, fsm, clock, tick>>

Recommendation(u, i) ==
    \/ get_recommendation_with_memory_raises(u, i)
    \/ \E recommendation \in Recommendations :
          get_recommendation_with_memory_returns(u, i, recommendation, chunk_size)
    \/ cmd_get_recommendation_answer(u, i)
    \/ cmd_get_recommendation_return(u, i)

\* ------------------------------------------------ process_email as a task
\* process_email up to aiosqlite.connect: routed by the state read now, it
\* puts the email and reads user_data
process_email_await(u, text) ==
    /\ Dispatch(u, text) = "process_email"
    /\ Suspended(UserIds) < MaxInFlight
    /\ fsm_data' = update_data(u, "email", text)
    /\ tasks' = [tasks EXCEPT ![u] = Append(@, Task("process_email",
                                                   update_data(u, "email", text)[u]))]
    /\ event' = Event("message", u, "process_email", "none")
    /\ UNCHANGED <<store, fsm_state, clock, tick>>

\* the INSERT as INSERT OR REPLACE
process_email_resume_replaces(u, i) ==
    /\ i \in 1..Len(tasks[u])
    /\ tasks[u][i].handler = "process_email"
    /\ tasks' = RemoveTask(u, i)
    /\ users' = (users \ SelectUser(u)) \cup {UserRow(u, tasks[u][i].user_data)}
    /\ clear(u)
    /\ event' = Event("message", u, "process_email", "registered")
    /\ UNCHANGED <<diary, reminders, feedback, clock, tick>>

\* process_email from aiosqlite.connect on: the INSERT of a second row with
\* the same id raises IntegrityError, which ends the handler
process_email_resume(u, i) ==
    /\ i \in 1..Len(tasks[u])
    /\ tasks[u][i].handler = "process_email"
    /\ tasks' = RemoveTask(u, i)
    /\ IF SelectUser(u) = {}
       THEN /\ users' = users \cup {UserRow(u, tasks[u][i].user_data)}
            /\ clear(u)
            /\ event' = Event("message", u, "process_email", "registered")
       ELSE /\ event' = Event("message", u, "process_email", "error")
            /\ UNCHANGED <<users, fsm>>
    /\ UNCHANGED <<diary, reminders, feedback, clock, tick>>

\* ------------------------------------------------------ callback handlers
toggle_reminders(u, data) ==
    /\ data \in {"toggle_reminder_on", "toggle_reminder_off"}
    /\ IF ForeignKeyOk(u)
       THEN /\ reminders' = InsertOrReplaceReminder(u, IF data = "toggle_reminder_on" THEN 1 ELSE 0,
                                                    None)
            /\ event' = Event("callback", u, "toggle_reminders",
                              IF data = "toggle_reminder_on" THEN "reminders_on"
                              ELSE "reminders_off")
       ELSE /\ reminders' = reminders
            /\ event' = Event("callback", u, "toggle_reminders", "error")
    /\ UNCHANGED <<users, diary, feedback, fsm, tasks, clock, tick>>

set_reminder_time(u, data) ==
    /\ data = "set_reminder_time"
    /\ fsm_state' = set_state(u, ReminderForm_time)
    /\ event' = Event("callback", u, "set_reminder_time", "ask_time")
    /\ UNCHANGED <<store, fsm_data, tasks, clock, tick>>

\* ------------------------------------------------------------- scheduler
\* the rows of SELECT user_id, last_sent_date FROM reminders
\* WHERE enabled = 1 AND time = ?, in the order of the primary key
SelectDue_NoWhere(current_time) == reminders

\* WHERE enabled = 1, without the comparison of time
SelectDue_AnyTime(current_time) == {r \in reminders : r.enabled = 1}

SelectDue(current_time) == {r \in reminders : r.enabled = 1 /\ r.time = current_time}

RECURSIVE FetchAll(_)
FetchAll(rows) ==
    IF rows = {} THEN <<>>
    ELSE LET r == CHOOSE x \in rows : \A y \in rows : x.user_id <= y.user_id
         IN  <<<<r.user_id, r.last_sent_date>>>> \o FetchAll(rows \ {r})

\* the for loop of send_reminders moves to the next row, or the job returns
NextRow == /\ tick_i' = tick_i + 1
           /\ tick_pc' = IF tick_i + 1 > Len(tick_users) THEN "idle" ELSE "loop"

\* The cron trigger fires at second 0 of the minute and the job, unless an
\* instance of it is still running, reads the clock and fetches the due rows.
send_reminders ==
    /\ ~ticked
    /\ ticked' = TRUE
    /\ tick_pc = "idle"
    /\ tick_date' = today
    /\ tick_users' = FetchAll(SelectDue(strftime(now)))
    /\ tick_i' = 1
    /\ tick_pc' = IF FetchAll(SelectDue(strftime(now))) = <<>> THEN "idle" ELSE "loop"
    /\ attempts' = <<>>
    /\ sent' = IF today = tick_date THEN sent ELSE [u \in UserIds |-> 0]
    /\ event' = Event("tick", 0, "send_reminders", "none")
    /\ UNCHANGED <<store, fsm, tasks, now, second, today>>

\* if last_sent_date == str(current_date): continue
send_reminders_skip ==
    /\ tick_pc = "loop"
    /\ tick_users[tick_i][2] = StrDate(tick_date)
    /\ NextRow
    /\ event' = Event("tick", tick_users[tick_i][1], "send_reminders", "skip")
    /\ UNCHANGED <<store, fsm, tasks, clock, tick_users, tick_date, attempts, sent>>

\* await bot.send_message(...) returns
send_reminders_send ==
    /\ tick_pc = "loop"
    /\ tick_users[tick_i][2] # StrDate(tick_date)
    /\ tick_pc' = "sent"
    /\ attempts' = Append(attempts, <<tick_users[tick_i][1], "ok">>)
    /\ sent' = [sent EXCEPT ![tick_users[tick_i][1]] = IF @ < MaxSent THEN @ + 1 ELSE @]
    /\ event' = Event("tick", tick_users[tick_i][1], "send_reminders", "reminder")
    /\ UNCHANGED <<store, fsm, tasks, clock, tick_users, tick_i, tick_date>>

\* await bot.send_message(...) raises and nothing catches it: the job ends
send_reminders_fail_aborts ==
    /\ tick_pc = "loop"
    /\ tick_users[tick_i][2] # StrDate(tick_date)
    /\ tick_pc' = "idle"
    /\ attempts' = Append(attempts, <<tick_users[tick_i][1], "fail">>)
    /\ event' = Event("tick", tick_users[tick_i][1], "send_reminders", "failed")
    /\ UNCHANGED <<store, fsm, tasks, clock, tick_users, tick_i, tick_date, sent>>

\* await bot.send_message(...) raises: the exception is logged
send_reminders_fail ==
    /\ tick_pc = "loop"
    /\ tick_users[tick_i][2] # StrDate(tick_date)
    /\ NextRow
    /\ attempts' = Append(attempts, <<tick_users[tick_i][1], "fail">>)
    /\ event' = Event("tick", tick_users[tick_i][1], "send_reminders", "failed")
    /\ UNCHANGED <<store, fsm, tasks, clock, tick_users, tick_date, sent>>

\* UPDATE reminders SET last_sent_date = ? WHERE user_id = ?, and commit
send_reminders_update ==
    /\ tick_pc = "sent"
    /\ reminders' = UpdateLastSentDate(tick_users[tick_i][1], tick_date)
    /\ NextRow
    /\ event' = Event("tick", tick_users[tick_i][1], "send_reminders", "updated")
    /\ UNCHANGED <<users, diary, feedback, fsm, tasks, clock, tick_users, tick_date,
                   attempts, sent>>

\* ------------------------------------------------------------------ clock
\* a second of the minute passes
SecondPasses ==
    /\ second < MaxSecond
    /\ second' = second + 1
    /\ UNCHANGED <<store, fsm, tasks, now, today, ticked, tick, event>>

MinutePasses ==
    /\ now < MaxMinute
    /\ now' = now + 1
    /\ second' = 0
    /\ ticked' = FALSE
    /\ UNCHANGED <<store, fsm, tasks, today, tick, event>>

DayPasses ==
    /\ now = MaxMinute
    /\ today < MaxDay
    /\ today' = today + 1
    /\ now' = 0
    /\ second' = 0
    /\ ticked' = FALSE
    /\ UNCHANGED <<store, fsm, tasks, tick, event>>

\* the clock is set back by less than a minute: second 0 of the same minute
\* comes again
ClockSetBack ==
    /\ ticked
    /\ ticked' = FALSE
    /\ second' = 0
    /\ UNCHANGED <<store, fsm, tasks, now, today, tick, event>>

\* ---------------------------------------------------------- specification
Message(u, text) ==
    \/ NotHandled(u, text)
    \/ cmd_start(u, text)
    \/ process_name(u, text)
    \/ process_age(u, text)
    \/ process_email(u, text)
    \/ cmd_new_entry(u, text)
    \/ handle_menu_new_entry(u, text)
    \/ process_situation(u, text)
    \/ process_thought(u, text)
    \/ process_emotion(u, text)
    \/ process_reaction(u, text)
    \/ process_reminder_time(u, text)
    \/ handle_menu_feedback(u, text)
    \/ process_feedback(u, text)

StoreFails(u, text) ==
    \/ process_email_fails(u, text)
    \/ process_reaction_fails(u, text)
    \/ process_reminder_time_fails(u, text)
    \/ process_feedback_fails(u, text)

Callback(u, data) ==
    \/ toggle_reminders(u, data)
    \/ set_reminder_time(u, data)

Scheduler ==
    \/ send_reminders
    \/ send_reminders_skip
    \/ send_reminders_send
    \/ send_reminders_fail
    \/ send_reminders_update

Clock ==
    \/ MinutePasses
    \/ DayPasses
    \/ ClockSetBack

Next ==
    \/ \E u \in UserIds, text \in Texts : Message(u, text)
    \/ \E u \in UserIds, text \in Texts : StoreFails(u, text)
    \/ \E u \in UserIds, text \in Texts : cmd_get_recommendation(u, text)
    \/ \E u \in UserIds, i \in 1..MaxInFlight : Recommendation(u, i)
    \/ \E u \in UserIds, text \in Texts : process_reaction_await(u, text)
    \/ \E u \in UserIds, i \in 1..MaxInFlight : process_reaction_resume(u, i)
    \/ \E u \in UserIds, text \in Texts : process_email_await(u, text)
    \/ \E u \in UserIds, i \in 1..MaxInFlight : process_email_resume(u, i)
    \/ \E u \in UserIds, data \in CallbackData : Callback(u, data)
    \/ Scheduler
    \/ Clock
    \/ SecondPasses

Spec == Init /\ [][Next]_vars

\* ------------------------------------------------ the wizard, one user
\* What user 1 types: the commands and buttons in every state, a number when
\* the bot has asked for the age or for feedback, and a time of day when the
\* bot has asked for one.  Updates are handled one at a time.
WizardTexts ==
    {CmdStart, CmdNewEntry, BtnNewEntry, BtnFeedback}
        \cup (IF fsm_state[1] \in {RegistrationForm_age, FeedbackForm_feedback}
              THEN {TxtAge} ELSE {})
        \cup (IF fsm_state[1] = ReminderForm_time THEN {TxtTime0} ELSE {})

NextWizard ==
    \/ \E text \in WizardTexts : Message(1, text)
    \/ set_reminder_time(1, "set_reminder_time")

SpecWizard == Init /\ [][NextWizard]_vars

\* --------------------------------------------- the forms, filled in order
\* User 1 goes through the forms: the commands and the add-entry button at
\* any time, a number as the free input, the feedback button from the menu
\* and a time of day when the bot has asked for one.
FormTexts ==
    {CmdStart, CmdNewEntry, BtnNewEntry, TxtAge}
        \cup (IF fsm_state[1] = NoState THEN {BtnFeedback} ELSE {})
        \cup (IF fsm_state[1] = ReminderForm_time THEN {TxtTime0} ELSE {})

NextForms ==
    \/ \E text \in FormTexts : Message(1, text)
    \/ set_reminder_time(1, "set_reminder_time")

SpecForms == Init /\ [][NextForms]_vars

\* ------------------------------------------ the forms, the store failing
\* User 1 goes through the forms as in SpecForms, and the write of a commit
\* step may fail.
NextCommit ==
    \/ \E text \in FormTexts : Message(1, text) \/ StoreFails(1, text)
    \/ set_reminder_time(1, "set_reminder_time")

SpecCommit == Init /\ [][NextCommit]_vars

\* ------------------------------------------- registration, email as tasks
\* User 1 sends /start, a word and a number in any order and at any time;
\* every message at the email field is handled in a task of its own,
\* suspended at the INSERT.
NextRegistration ==
    \/ \E text \in {CmdStart, TxtWord, TxtAge} :
          \/ NotHandled(1, text)
          \/ cmd_start(1, text)
          \/ process_name(1, text)
          \/ process_age(1, text)
          \/ process_email_await(1, text)
    \/ \E i \in 1..MaxInFlight : process_email_resume(1, i)

SpecRegistration == Init /\ [][NextRegistration]_vars

\* ------------------------------------ free inputs: registration, the time
\* User 1 registers with names, ages and emails of several shapes, switches
\* reminders on and off, and answers the request for a time of day with the
\* texts of TimeInputs.
InputTexts ==
    IF fsm_state[1] = ReminderForm_time THEN TimeInputs
    ELSE {CmdStart, TxtWord, TxtAge, TxtAge07, TxtAgeSuperscript}

NextInputs ==
    \/ \E text \in InputTexts :
          \/ NotHandled(1, text)
          \/ cmd_start(1, text)
          \/ process_name(1, text)
          \/ process_age(1, text)
          \/ process_email(1, text)
          \/ process_reminder_time(1, text)
    \/ \E data \in CallbackData : Callback(1, data)

SpecInputs == Init /\ [][NextInputs]_vars

\* ------------------------------------------------- registered users
\* the users table after both users have gone through the registration form
RegisteredUsers ==
    {[id |-> u, name |-> TxtWord, age |-> int(TxtAge), email |-> TxtWord] : u \in UserIds}

InitRegistered ==
    /\ users = RegisteredUsers
    /\ diary = <<>>
    /\ reminders = {}
    /\ feedback = <<>>
    /\ fsm_state = [u \in UserIds |-> NoState]
    /\ fsm_data = [u \in UserIds |-> EmptyData]
    /\ tasks = [u \in UserIds |-> <<>>]
    /\ now = 0
    /\ second = 0
    /\ today = 1
    /\ ticked = FALSE
    /\ tick_pc = "idle"
    /\ tick_users = <<>>
    /\ tick_i = 1
    /\ tick_date = 1
    /\ attempts = <<>>
    /\ sent = [u \in UserIds |-> 0]
    /\ event = NoEvent

\* ------------------------------------- the wizard's last field, as tasks
\* The registered users fill the diary form; every message at the last field is handled
\* in a task of its own, suspended at the INSERT.
NextTasks ==
    \/ \E u \in UserIds, text \in {CmdNewEntry, TxtAge} :
          \/ cmd_new_entry(u, text)
          \/ process_situation(u, text)
          \/ process_thought(u, text)
          \/ process_emotion(u, text)
          \/ process_reaction_await(u, text)
    \/ \E u \in UserIds, i \in 1..MaxInFlight : process_reaction_resume(u, i)

SpecTasks == InitRegistered /\ [][NextTasks]_vars

\* ------------------------------------------- a diary run after other forms
\* User 1 starts the registration and leaves it, starts the diary form at any
\* time, and answers with a word or, except at the name and the emotion, a
\* number.  Every message at the last field is handled in a task of its own,
\* suspended at the INSERT; while a write is suspended the user sends nothing
\* but further answers to the last prompt.
DiaryRunTexts ==
    {CmdStart, CmdNewEntry, TxtWord}
        \cup (IF fsm_state[1] \in {DiaryForm_situation, DiaryForm_thought, DiaryForm_reaction}
              THEN {TxtAge} ELSE {})

DiaryRunMessage(u, text) ==
    \/ cmd_start(u, text)
    \/ process_name(u, text)
    \/ cmd_new_entry(u, text)
    \/ process_situation(u, text)
    \/ process_thought(u, text)
    \/ process_emotion(u, text)
    \/ process_reaction_await(u, text)

NextDiaryRun ==
    \/ tasks[1] = <<>> /\ \E text \in DiaryRunTexts : DiaryRunMessage(1, text)
    \/ tasks[1] # <<>> /\ \E text \in DiaryRunTexts : process_reaction_await(1, text)
    \/ \E i \in 1..MaxInFlight : process_reaction_resume(1, i)

SpecDiaryRun == Init /\ [][NextDiaryRun]_vars

\* --------------------------------------- reminder settings and the sweep
\* User 1, registered, switches reminders on and off and sets the time of day.
ReminderTexts == {TxtTime0, TxtTime1}

NextReminders ==
    \/ \E text \in ReminderTexts : process_reminder_time(1, text)
    \/ \E data \in CallbackData : Callback(1, data)
    \/ Scheduler
    \/ Clock

SpecReminders == InitRegistered /\ [][NextReminders]_vars

\* ---------------------------------------- the diary and the recommendation
\* User 1 fills the diary form and asks for a recommendation when in no
\* form; user 2 starts the diary form.
NextRecommendation ==
    \/ \E text \in {CmdNewEntry, TxtAge} :
          \/ cmd_new_entry(1, text)
          \/ process_situation(1, text)
          \/ process_thought(1, text)
          \/ process_emotion(1, text)
          \/ process_reaction(1, text)
    \/ cmd_new_entry(2, CmdNewEntry)
    \/ process_situation(2, TxtAge)
    \/ \E text \in {CmdGetRecommendation, BtnGetRecommendation} :
          cmd_get_recommendation(1, text)
    \/ \E i \in 1..MaxInFlight : Recommendation(1, i)

SpecRecommendation == InitRegistered /\ [][NextRecommendation]_vars

\* -------------------------------------------------------- split_message
\* the strings of up to MaxLen characters over two letters
Strings == UNION {[1..k -> {"a", "b"}] : k \in 0..MaxLen}

\* User 1 has one entry and has asked for a recommendation.
InitSplit ==
    /\ users = RegisteredUsers
    /\ diary = <<[id |-> 1, user_id |-> 1, situation |-> TxtWord, thought |-> TxtWord,
                  emotion |-> TxtWord, reaction |-> TxtWord, recommendation |-> None,
                  created_at |-> <<1, 0, 0>>]>>
    /\ reminders = {}
    /\ feedback = <<>>
    /\ fsm_state = [u \in UserIds |-> NoState]
    /\ fsm_data = [u \in UserIds |-> EmptyData]
    /\ tasks = [u \in UserIds |-> IF u = 1 THEN <<RecommendationTask(1)>> ELSE <<>>]
    /\ now = 0
    /\ second = 0
    /\ today = 1
    /\ ticked = FALSE
    /\ tick_pc = "idle"
    /\ tick_users = <<>>
    /\ tick_i = 1
    /\ tick_date = 1
    /\ attempts = <<>>
    /\ sent = [u \in UserIds |-> 0]
    /\ event = Event("message", 1, "cmd_get_recommendation", "none")

\* GigaChat answers with any of the strings, split_message is applied to the
\* answer with any chunk size, and the chunks are sent.
NextSplit ==
    \/ \E recommendation \in Strings, n \in 1..MaxChunk :
          get_recommendation_with_memory_returns(1, 1, recommendation, n)
    \/ cmd_get_recommendation_answer(1, 1)
    \/ cmd_get_recommendation_return(1, 1)

SpecSplit == InitSplit /\ [][NextSplit]_vars

\* ------------------------------------- an entry added during the request
\* User 1 fills the diary form from its start to its end, with a word or a
\* number as the situation, while seconds pass, and asks for recommendations
\* when in no form; the form is filled while requests are in flight, and
\* the requests come back in any order.  The sending of a
\* recommendation that has been stored is not followed.
InFlightTexts ==
    IF fsm_state[1] = NoState THEN {CmdNewEntry}
    ELSE IF fsm_state[1] = DiaryForm_situation THEN {TxtAge, TxtWord}
    ELSE {TxtAge}

NextInFlight ==
    \/ \E text \in InFlightTexts :
          \/ cmd_new_entry(1, text)
          \/ process_situation(1, text)
          \/ process_thought(1, text)
          \/ process_emotion(1, text)
          \/ process_reaction(1, text)
    \/ cmd_get_recommendation(1, CmdGetRecommendation)
    \/ \E i \in 1..MaxInFlight :
          \/ get_recommendation_with_memory_raises(1, i)
          \/ \E recommendation \in Recommendations :
                get_recommendation_with_memory_returns(1, i, recommendation, chunk_size)
    \/ SecondPasses

SpecInFlight == InitRegistered /\ [][NextInFlight]_vars

\* ------------------------------------------------------- the last entry
\* The registered users fill the diary form while seconds pass, and user 1
\* asks for a recommendation, which fails.
NextLastEntry ==
    \/ \E u \in UserIds, text \in {CmdNewEntry, TxtAge} :
          \/ cmd_new_entry(u, text)
          \/ process_situation(u, text)
          \/ process_thought(u, text)
          \/ process_emotion(u, text)
          \/ process_reaction(u, text)
    \/ cmd_get_recommendation(1, CmdGetRecommendation)
    \/ \E i \in 1..MaxInFlight : get_recommendation_with_memory_raises(1, i)
    \/ SecondPasses

SpecLastEntry == InitRegistered /\ [][NextLastEntry]_vars

\* ------------------------------------- the sweep over a stored table
\* The rows a reminders table left by earlier runs of the program can hold:
\* toggle_reminders writes (enabled, NULL, NULL), process_reminder_time writes
\* (1, time, NULL) and send_reminders sets last_sent_date, to a date not after
\* today.  Date 0 is the day before the first day.
StoredRows(u) ==
    {[user_id |-> u, enabled |-> e, time |-> None, last_sent_date |-> l] :
        e \in {0, 1}, l \in {None, isoformat(0), isoformat(1)}}
    \cup {[user_id |-> u, enabled |-> 1, time |-> t, last_sent_date |-> l] :
        t \in ReminderTexts, l \in {None, isoformat(0), isoformat(1)}}

StoredTables ==
    {rows \in SUBSET (UNION {StoredRows(u) : u \in UserIds}) :
        \A r1, r2 \in rows : r1.user_id = r2.user_id => r1 = r2}

InitDelivery ==
    /\ users = RegisteredUsers
    /\ diary = <<>>
    /\ reminders \in StoredTables
    /\ feedback = <<>>
    /\ fsm_state = [u \in UserIds |-> NoState]
    /\ fsm_data = [u \in UserIds |-> EmptyData]
    /\ tasks = [u \in UserIds |-> <<>>]
    /\ now = 0
    /\ second = 0
    /\ today = 1
    /\ ticked = FALSE
    /\ tick_pc = "idle"
    /\ tick_users = <<>>
    /\ tick_i = 1
    /\ tick_date = 1
    /\ attempts = <<>>
    /\ sent = [u \in UserIds |-> 0]
    /\ event = NoEvent

NextDelivery ==
    \/ \E u \in UserIds, data \in {"toggle_reminder_on", "toggle_reminder_off"} :
          toggle_reminders(u, data)
    \/ Scheduler
    \/ Clock

SpecDelivery == InitDelivery /\ [][NextDelivery]_vars

\* ================================================================ properties
\* ---------------------------------------------------------------- reminders
\* the number of bot.send_message calls the running (or last) tick made to u
AttemptsTo(u) == Cardinality({k \in 1..Len(attempts) : attempts[k][1] = u})

\* the rows of tick_users the for loop has dealt with as far as its send
RowsReached == IF tick_pc = "idle" THEN Len(tick_users)
               ELSE IF tick_pc = "sent" THEN tick_i
               ELSE tick_i - 1

\* row i of tick_users carries a last_sent_date other than the tick's date
RowIsDue(i) == tick_users[i][2] # isoformat(tick_date)

\* the step is the start of a tick
TickStarts == ~ticked /\ ticked'

\* the step is a bot.send_message call of the tick
TickAttempts == Len(attempts') = Len(attempts) + 1

\* C1: at most one reminder is delivered to a user on a calendar day, over
\* every sequence of ticks, toggles and reminder-time submissions of that day.
C1_OneReminderPerDay == \A u \in UserIds : sent[u] <= 1

\* C2: a tick at T fetches every row that is enabled with time T; it makes
\* exactly one delivery attempt for a fetched row whose last_sent_date is not
\* the tick's date and none for a row whose last_sent_date is that date; the
\* UPDATE after a successful delivery leaves last_sent_date at the tick's date;
\* and no user is delivered a second reminder on that date by a later tick.
C2_TickFetchesDue ==
    TickStarts =>
        \A r \in reminders :
            (r.enabled = 1 /\ r.time = strftime(now)) =>
                \E i \in 1..Len(tick_users') :
                    tick_users'[i] = <<r.user_id, r.last_sent_date>>

C2_AttemptsOfTick ==
    /\ \A i \in 1..Len(tick_users) :
           AttemptsTo(tick_users[i][1]) = IF i <= RowsReached /\ RowIsDue(i) THEN 1 ELSE 0
    /\ \A k \in 1..Len(attempts) : \E i \in 1..Len(tick_users) : tick_users[i][1] = attempts[k][1]

C2_UpdateSetsDate ==
    (event.handler = "send_reminders" /\ event.reply = "updated") =>
        \A r \in SelectReminder(event.user) : r.last_sent_date = isoformat(tick_date)

C3_FailureChangesNothing ==
    (TickAttempts /\ attempts'[Len(attempts')][2] = "fail") =>
        /\ reminders' = reminders
        /\ tick_users' = tick_users
        /\ tick_i' = tick_i + 1

C3_EveryDueRowAttempted ==
    tick_pc = "idle" =>
        \A i \in 1..Len(tick_users) :
            RowIsDue(i) => \E k \in 1..Len(attempts) : attempts[k][1] = tick_users[i][1]

C3_FailureIsolated == [][C3_FailureChangesNothing]_vars /\ []C3_EveryDueRowAttempted

\* C3 witness: the tick has ended; delivery to user 1 failed and left the row
\* of user 1 without the tick's date, and user 2 after it was delivered to.
C3_Witness ==
    /\ tick_pc = "idle"
    /\ attempts = <<<<1, "fail">>, <<2, "ok">>>>
    /\ \E r \in SelectReminder(1) : r.last_sent_date # isoformat(tick_date)
    /\ \E r \in SelectReminder(2) : r.last_sent_date = isoformat(tick_date)

\* C10: a tick that starts fetches only users whose row has enabled = 1 at
\* that moment, and every delivery attempt of a tick goes to a user the tick
\* fetched at its start; so a user whose disable is committed is delivered to
\* by no tick that starts afterwards, and at most by the tick already running.
C10_TickFetchesEnabledOnly ==
    TickStarts =>
        \A i \in 1..Len(tick_users') :
            \E r \in reminders : r.user_id = tick_users'[i][1] /\ r.enabled = 1

C10_TickDeliversToFetchedOnly ==
    TickAttempts =>
        /\ tick_users' = tick_users
        /\ \E i \in 1..Len(tick_users) : tick_users[i][1] = attempts'[Len(attempts')][1]

C10_DisableHoldsFromNextTick ==
    [][C10_TickFetchesEnabledOnly /\ C10_TickDeliversToFetchedOnly]_vars

\* C10 witness: user 1 switched reminders off while a tick that had fetched
\* the row of user 1 was running; that tick still delivered to user 1, and the
\* tick of the next minute has run without an attempt to user 1.
C10_Witness ==
    /\ \E r \in SelectReminder(1) : r.enabled = 0 /\ r.last_sent_date = isoformat(today)
    /\ sent[1] = 1
    /\ now = 1
    /\ ticked
    /\ tick_pc = "idle"
    /\ tick_date = today
    /\ AttemptsTo(1) = 0
    /\ AttemptsTo(2) = 1

\* C11: the rows a tick fetches are rows that, at the scan, have enabled = 1
\* and a time equal to the current time of day, and the tick attempts delivery
\* only to a user it fetched with a last_sent_date other than the tick's date;
\* a user who is disabled, has no time or has another time gets nothing.
C11_ScanSelectsDue ==
    TickStarts =>
        /\ tick_date' = today
        /\ \A i \in 1..Len(tick_users') :
               \E r \in reminders :
                   /\ r.user_id = tick_users'[i][1]
                   /\ r.enabled = 1
                   /\ r.time = TwoDigits(now \div 60) \o <<":">> \o TwoDigits(now % 60)
                   /\ r.last_sent_date = tick_users'[i][2]

C11_AttemptOnlyIfDue ==
    TickAttempts =>
        \E i \in 1..Len(tick_users) :
            /\ tick_users[i][1] = attempts'[Len(attempts')][1]
            /\ tick_users[i][2] # isoformat(tick_date)

C11_OnlyDueUsersAttempted == [][C11_ScanSelectsDue /\ C11_AttemptOnlyIfDue]_vars

\* C11 witness: the tick of 00:00 has ended with one attempt, to user 1; user 2
\* is enabled with the time 00:01 and got nothing.
C11_Witness ==
    /\ now = 0
    /\ ticked
    /\ tick_pc = "idle"
    /\ attempts = <<<<1, "ok">>>>
    /\ \E r \in SelectReminder(2) : r.enabled = 1 /\ r.time = TxtTime1

\* C12: when a tick has ended, every row it fetched with the date before the
\* tick's date as last_sent_date has had its delivery attempt: a user notified
\* on date D is eligible on D + 1 with no reset step.
C12_NextDayEligible ==
    tick_pc = "idle" =>
        \A i \in 1..Len(tick_users) :
            tick_users[i][2] = isoformat(tick_date - 1) => AttemptsTo(tick_users[i][1]) = 1

\* C12 witness: user 1, notified on date 1, has been delivered the reminder of
\* date 2 by the tick at the same time, and the row carries date 2.
C12_Witness ==
    /\ tick_pc = "idle"
    /\ tick_date = 2
    /\ tick_users = <<<<1, isoformat(1)>>>>
    /\ attempts = <<<<1, "ok">>>>
    /\ \E r \in SelectReminder(1) : r.enabled = 1 /\ r.last_sent_date = isoformat(2)

\* ------------------------------------------------------------------- wizard
\* C4: every diary row belongs to an existing user.
C4_EntryHasUser == \A i \in 1..Len(diary) : SelectUser(diary[i].user_id) # {}

\* C5: a message other than /start from a user with no users row and not in a
\* registration state is answered with the not-registered message, no handler
\* runs, and neither the store nor the user's wizard state changes.
C5_Gated(u, text) ==
    (SelectUser(u) = {} /\ fsm_state[u] \notin RegistrationStates /\ Message(u, text)) =>
        /\ event' = Event("message", u, "not_registered", "not_registered")
        /\ store' = store
        /\ fsm_state'[u] = fsm_state[u]
        /\ fsm_data'[u] = fsm_data[u]

C5_RegistrationGate == [][\A u \in UserIds, text \in Texts \ {CmdStart} : C5_Gated(u, text)]_vars

\* C6: of the messages of one user that arrive while the user is at the last
\* field of the diary form, at most one is processed as that last field: no
\* two invocations of the last field's handler are in progress for one user.
C6_LastFieldOnce == \A u \in UserIds : Len(tasks[u]) <= 1

\* the forms: field-states in their order, and the key each input is kept under
LastFields == {RegistrationForm_email, DiaryForm_reaction, ReminderForm_time,
               FeedbackForm_feedback}

FirstFields == {RegistrationForm_name, DiaryForm_situation, ReminderForm_time,
                FeedbackForm_feedback}

FieldAfter(k) ==
    CASE k = RegistrationForm_name -> RegistrationForm_age
      [] k = RegistrationForm_age -> RegistrationForm_email
      [] k = DiaryForm_situation -> DiaryForm_thought
      [] k = DiaryForm_thought -> DiaryForm_emotion
      [] k = DiaryForm_emotion -> DiaryForm_reaction

FieldKey(k) ==
    CASE k = RegistrationForm_name -> "name"
      [] k = RegistrationForm_age -> "age"
      [] k = RegistrationForm_email -> "email"
      [] k = DiaryForm_situation -> "situation"
      [] k = DiaryForm_thought -> "thought"
      [] k = DiaryForm_emotion -> "emotion"
      [] k = DiaryForm_reaction -> "reaction"

EarlierKeys(k) ==
    CASE k = RegistrationForm_age -> {"name"}
      [] k = RegistrationForm_email -> {"name", "age"}
      [] k = DiaryForm_thought -> {"situation"}
      [] k = DiaryForm_emotion -> {"situation", "thought"}
      [] k = DiaryForm_reaction -> {"situation", "thought", "emotion"}
      [] OTHER -> {}

\* the first field of the form a start trigger starts
FormStartedBy(text) ==
    CASE text = CmdStart -> RegistrationForm_name
      [] text = CmdNewEntry -> DiaryForm_situation
      [] text = BtnNewEntry -> DiaryForm_situation
      [] text = BtnFeedback -> FeedbackForm_feedback

\* the input as the form keeps it: the age as a number
StoredInput(k, text) == IF k = RegistrationForm_age THEN <<"int", DecimalValue(text)>> ELSE text

Stays(u) ==
    /\ fsm_state'[u] = fsm_state[u]
    /\ fsm_data'[u] = fsm_data[u]
    /\ store' = store

Advances(u, text) ==
    /\ fsm_state[u] \notin LastFields
    /\ fsm_state'[u] = FieldAfter(fsm_state[u])
    /\ fsm_data'[u] = [fsm_data[u] EXCEPT ![FieldKey(fsm_state[u])] =
                                            StoredInput(fsm_state[u], text)]
    /\ store' = store

Commits(u, text) ==
    /\ fsm_state[u] \in LastFields
    /\ fsm_state'[u] = NoState
    /\ fsm_data'[u] = EmptyData
    /\ CASE fsm_state[u] = RegistrationForm_email ->
                /\ users' = users \cup {[id |-> u, name |-> fsm_data[u]["name"],
                                         age |-> fsm_data[u]["age"], email |-> text]}
                /\ UNCHANGED <<diary, reminders, feedback>>
         [] fsm_state[u] = DiaryForm_reaction ->
                /\ Len(diary') = Len(diary) + 1
                /\ SubSeq(diary', 1, Len(diary)) = diary
                /\ diary'[Len(diary')].user_id = u
                /\ diary'[Len(diary')].situation = fsm_data[u]["situation"]
                /\ diary'[Len(diary')].thought = fsm_data[u]["thought"]
                /\ diary'[Len(diary')].emotion = fsm_data[u]["emotion"]
                /\ diary'[Len(diary')].reaction = text
                /\ UNCHANGED <<users, reminders, feedback>>
         [] fsm_state[u] = ReminderForm_time ->
                /\ \E r \in reminders' : r.user_id = u /\ r.enabled = 1 /\ r.time = text
                /\ UNCHANGED <<users, diary, feedback>>
         [] fsm_state[u] = FeedbackForm_feedback ->
                /\ feedback' = Append(feedback, [user_id |-> u, feedback |-> text])
                /\ UNCHANGED <<users, diary, reminders>>

Restarts(u, text) ==
    /\ text \in {CmdStart, CmdNewEntry, BtnNewEntry, BtnFeedback}
    /\ fsm_state'[u] = FormStartedBy(text)
    /\ store' = store

\* a field-state other than a first field is entered only from the field
\* before it, with the input of that field stored
EntersInOrder(u) ==
    (fsm_state'[u] # fsm_state[u] /\ fsm_state'[u] \notin FirstFields \cup {NoState}) =>
        /\ fsm_state[u] \in FieldStates \ LastFields
        /\ fsm_state'[u] = FieldAfter(fsm_state[u])
        /\ fsm_data'[u][FieldKey(fsm_state[u])] # None

EarlierFieldsSupplied ==
    \A u \in UserIds : \A k \in EarlierKeys(fsm_state[u]) : fsm_data[u][k] # None

\* C7 as stated: a message processed in field-state k leaves the user in k,
\* or in k+1 with the input stored, or in Idle with the form committed when k
\* is the last field; a field-state is entered only with all earlier fields
\* supplied, and no transition goes back to an earlier field.
C7_AsStated(u, text) ==
    (fsm_state[u] \in FieldStates /\ Message(u, text)) =>
        Stays(u) \/ Advances(u, text) \/ Commits(u, text)

C7_TransitionRule ==
    /\ [][\A u \in UserIds : EntersInOrder(u) /\ \A text \in Texts : C7_AsStated(u, text)]_vars
    /\ []EarlierFieldsSupplied

\* C7 amended: as C7, or the message is a start trigger and the user is left
\* in the first field of the form it starts, with nothing committed; the only
\* transitions to an earlier field are these, to a first field.
C7_WithRestart(u, text) ==
    (fsm_state[u] \in FieldStates /\ Message(u, text)) =>
        Stays(u) \/ Advances(u, text) \/ Commits(u, text) \/ Restarts(u, text)

C7_TransitionRuleWithRestart ==
    /\ [][\A u \in UserIds : EntersInOrder(u) /\ \A text \in Texts : C7_WithRestart(u, text)]_vars
    /\ []EarlierFieldsSupplied

\* C7 witness: user 1 supplied situation and thought, was asked for the
\* emotion and sent /new_entry: the form is back at its first field.
C7_Witness ==
    /\ fsm_state[1] = DiaryForm_situation
    /\ fsm_data[1]["situation"] # None
    /\ fsm_data[1]["thought"] # None
    /\ fsm_data[1]["emotion"] = None
    /\ event = Event("message", 1, "cmd_new_entry", "ask_situation")

\* C8: in every field-state of the diary, reminder-time and feedback forms,
\* each start trigger moves the user to the first field of the form it starts.
C8_Resets(u, text) ==
    (fsm_state[u] \in DiaryStates \cup {ReminderForm_time, FeedbackForm_feedback}
        /\ Message(u, text)) =>
            fsm_state'[u] = FormStartedBy(text)

C8_CallbackResets(u) ==
    (fsm_state[u] \in DiaryStates \cup {ReminderForm_time, FeedbackForm_feedback}
        /\ Callback(u, "set_reminder_time")) =>
            fsm_state'[u] = ReminderForm_time

C8_UniformReset ==
    [][\A u \in UserIds :
          /\ C8_CallbackResets(u)
          /\ \A text \in {CmdNewEntry, BtnNewEntry, BtnFeedback} : C8_Resets(u, text)]_vars

\* an operation of user u after which the session of u is Idle and the store
\* is as it was
ResetsToIdle(u) ==
    /\ \/ \E text \in Texts : Message(u, text)
       \/ \E data \in CallbackData : Callback(u, data)
    /\ fsm_state'[u] = NoState
    /\ store' = store

\* C9: from every field-state there is an operation after which the user's
\* session is Idle and nothing has been committed.
C9_ResetAvailable ==
    \A u \in UserIds : fsm_state[u] \in FieldStates => ENABLED ResetsToIdle(u)

\* ------------------------------------------------------------- free inputs
\* a text that denotes an integer: decimal digits only, at least one
IsInteger(text) == Len(text) > 0 /\ \A i \in 1..Len(text) : IsDecimalChar(text[i])

\* the number two decimal digits denote
TwoDigitNumber(c1, c2) == 10 * DigitValue(c1) + DigitValue(c2)

\* a time of day as C14 describes it
TimeIsValid(text) ==
    /\ Len(text) = 5
    /\ text[3] = ":"
    /\ \A i \in {1, 2, 4, 5} : IsDecimalChar(text[i])
    /\ TwoDigitNumber(text[1], text[2]) \in 0..23
    /\ TwoDigitNumber(text[4], text[5]) \in 0..59

\* C13: in the registration form the name is kept as typed, a valid age as
\* its number and, at the email, exactly one users row is inserted for the
\* user, made of the kept name, the kept age and the email typed, and the
\* session is Idle; no user id ever has two rows.
C13_Name(u, text) ==
    (fsm_state[u] = RegistrationForm_name /\ process_name(u, text)) =>
        /\ fsm_data'[u]["name"] = text
        /\ fsm_state'[u] = RegistrationForm_age

C13_Age(u, text) ==
    (fsm_state[u] = RegistrationForm_age /\ process_age(u, text) /\ IsInteger(text)) =>
        /\ fsm_data'[u]["age"] = <<"int", DecimalValue(text)>>
        /\ fsm_data'[u]["name"] = fsm_data[u]["name"]
        /\ fsm_state'[u] = RegistrationForm_email

C13_Email(u, text) ==
    (fsm_state[u] = RegistrationForm_email /\ process_email(u, text)) =>
        /\ SelectUser(u) = {}
        /\ users' = users \cup {[id |-> u, name |-> fsm_data[u]["name"],
                                 age |-> fsm_data[u]["age"], email |-> text]}
        /\ fsm_state'[u] = NoState

C13_RegistrationCommitsInputs ==
    /\ [][\A u \in UserIds, text \in Texts :
              C13_Name(u, text) /\ C13_Age(u, text) /\ C13_Email(u, text)]_vars
    /\ [](\A u \in UserIds : Cardinality(SelectUser(u)) <= 1)

\* C13 witness: user 1 typed "hi", "07" and "30" and is registered with them.
C13_Witness ==
    /\ users = {[id |-> 1, name |-> TxtWord, age |-> <<"int", 7>>, email |-> TxtAge]}
    /\ fsm_state[1] = NoState
    /\ event = Event("message", 1, "process_email", "registered")

\* C14: a text sent in the reminder-time state is accepted if and only if it
\* has 5 characters, ':' at index 2, decimal digits elsewhere, an hour in
\* 0..23 and a minute in 0..59; the examples of the spec come out as stated.
C14_Accepted(u, text) ==
    (fsm_state[u] = ReminderForm_time /\ process_reminder_time(u, text)) =>
        /\ (event'.reply = "time_set") <=> TimeIsValid(text)
        /\ (\E r \in reminders' : r.user_id = u /\ r.time = text) \/ ~TimeIsValid(text)

C14_Examples ==
    /\ ~ValidReminderTime(<<"2", "5", ":", "0", "0">>)
    /\ ~ValidReminderTime(<<"1", "2", ":", "6", "0">>)
    /\ ~ValidReminderTime(<<"1", "2", "3", "0">>)
    /\ ~ValidReminderTime(<<"1", "2", ":", "3">>)
    /\ ValidReminderTime(<<"0", "0", ":", "0", "0">>)
    /\ ValidReminderTime(<<"2", "3", ":", "5", "9">>)

C14_TimeValidation ==
    /\ [][\A u \in UserIds, text \in TimeInputs : C14_Accepted(u, text)]_vars
    /\ []C14_Examples

\* C14 witness: "23:59" has been accepted and stored, and after it "25:00"
\* has been rejected.
C14_Witness ==
    /\ reminders = {[user_id |-> 1, enabled |-> 1, time |-> <<"2", "3", ":", "5", "9">>,
                     last_sent_date |-> None]}
    /\ fsm_state[1] = ReminderForm_time
    /\ event = Event("message", 1, "process_reminder_time", "bad_time")

\* C15: an age that is not an integer leaves the user in the age state, and a
\* time that is not valid leaves the user in the reminder-time state; nothing
\* is committed, the collected fields are as before, and no exception leaves
\* the handler.
C15_Age(u, text) ==
    (fsm_state[u] = RegistrationForm_age /\ process_age(u, text) /\ ~IsInteger(text)) =>
        /\ fsm_state'[u] = RegistrationForm_age
        /\ fsm_data'[u] = fsm_data[u]
        /\ store' = store
        /\ event'.reply # "exception"

C15_Time(u, text) ==
    (fsm_state[u] = ReminderForm_time /\ process_reminder_time(u, text) /\ ~TimeIsValid(text)) =>
        /\ fsm_state'[u] = ReminderForm_time
        /\ fsm_data'[u] = fsm_data[u]
        /\ store' = store
        /\ event'.reply # "exception"

C15_RejectionRetainsSession ==
    [][\A u \in UserIds, text \in Texts : C15_Age(u, text) /\ C15_Time(u, text)]_vars

\* C16: a valid time T sent in the reminder-time state leaves exactly one row
\* of the user, with enabled = 1 and time = T, and the session Idle.
C16_Submitted(u, text) ==
    (fsm_state[u] = ReminderForm_time /\ process_reminder_time(u, text) /\ TimeIsValid(text)) =>
        /\ Cardinality({r \in reminders' : r.user_id = u}) = 1
        /\ \A r \in reminders' : r.user_id = u => (r.enabled = 1 /\ r.time = text)
        /\ fsm_state'[u] = NoState

C16_TimeSetEnables == [][\A u \in UserIds, text \in TimeInputs : C16_Submitted(u, text)]_vars

\* C16 witness: user 1 asked to set the time and sent "00:01": the one row of
\* the user is enabled with that time and the session is Idle.
C16_Witness ==
    /\ reminders = {[user_id |-> 1, enabled |-> 1, time |-> TxtTime1, last_sent_date |-> None]}
    /\ fsm_state[1] = NoState
    /\ event = Event("message", 1, "process_reminder_time", "time_set")

\* --------------------------------------------------- the store write fails
\* C19: when the write of a commit step fails, the user is still at the last
\* field of the form, the inputs collected before are as they were (the last
\* one is kept as typed where the form keeps it), nothing is committed, and
\* the same input is routed to the same handler again.
C19_Failure(u, text) ==
    StoreFails(u, text) =>
        /\ fsm_state[u] \in LastFields
        /\ fsm_state'[u] = fsm_state[u]
        /\ \A k \in EarlierKeys(fsm_state[u]) :
               fsm_data[u][k] # None /\ fsm_data'[u][k] = fsm_data[u][k]
        /\ \A v \in UserIds \ {u} : fsm_data'[v] = fsm_data[v] /\ fsm_state'[v] = fsm_state[v]
        /\ store' = store
        /\ Route(fsm_state'[u], text) = Route(fsm_state[u], text)

C19_FailedCommitKeepsSession ==
    [][\A u \in UserIds, text \in Texts : C19_Failure(u, text)]_vars

\* C19 witness: the write of the diary entry has failed: user 1 is at the
\* reaction with the four inputs kept and the diary is empty.
C19_Witness ==
    /\ event = Event("message", 1, "process_reaction", "store_error")
    /\ fsm_state[1] = DiaryForm_reaction
    /\ HasKeys(fsm_data[1], {"situation", "thought", "emotion", "reaction"})
    /\ diary = <<>>

\* ------------------------------------------------------------ the last entry
\* the entry of user u created last: AUTOINCREMENT ids grow with every INSERT
MostRecentEntry(u) ==
    CHOOSE i \in 1..Len(diary) :
        diary[i].user_id = u /\ \A j \in (i + 1)..Len(diary) : diary[j].user_id # u

\* C17: for a user with an entry, the last-entry query returns the entry of
\* that user created last, also when two entries of the user were created in
\* the same second; a request for a recommendation works on that entry.
C17_QueryReturnsLast ==
    \A u \in UserIds : \A i \in get_last_diary_entry(u) : i = MostRecentEntry(u)

C17_RequestReadsLast(u, text) ==
    (get_last_diary_entry(u) # {} /\ cmd_get_recommendation(u, text)) =>
        tasks'[u][Len(tasks'[u])].entry_id = MostRecentEntry(u)

C17_LastEntryIsMostRecent ==
    /\ []C17_QueryReturnsLast
    /\ [][\A u \in UserIds : C17_RequestReadsLast(u, CmdGetRecommendation)]_vars

\* ------------------------------------------------- the request to GigaChat
\* C18: when the request to GigaChat fails, no table is written (the last
\* entry of the user keeps the recommendation it had, NULL if it had none) and
\* the state and the data of every user are as before.
C18_Failure(u, i) ==
    get_recommendation_with_memory_raises(u, i) =>
        /\ diary' = diary
        /\ diary'[MostRecentEntry(u)].recommendation = diary[MostRecentEntry(u)].recommendation
        /\ store' = store
        /\ fsm_state' = fsm_state
        /\ fsm_data' = fsm_data

C18_GatewayFailureWritesNothing ==
    [][\A u \in UserIds, i \in 1..MaxInFlight : C18_Failure(u, i)]_vars

\* C18 witness: the request of user 1 has failed while user 1 had started a
\* new entry and user 2 was in the diary form; the last entry of user 1 has no
\* recommendation.
C18_Witness ==
    /\ event.user = 1
    /\ event.handler = "cmd_get_recommendation"
    /\ event.reply = "gateway_error"
    /\ get_last_diary_entry(1) # {}
    /\ diary[MostRecentEntry(1)].recommendation = None
    /\ fsm_state[1] = DiaryForm_thought
    /\ fsm_state[2] = DiaryForm_thought
    /\ fsm_data[2]["situation"] = TxtAge

\* ------------------------------------------------------------ split_message
RECURSIVE Concatenation(_)
Concatenation(chunks) ==
    IF chunks = <<>> THEN <<>> ELSE Head(chunks) \o Concatenation(Tail(chunks))

\* the tasks that have split a recommendation and are sending the chunks
Sending == {t \in UNION {{tasks[u][i] : i \in 1..Len(tasks[u])} : u \in UserIds} :
               t.handler = "cmd_get_recommendation" /\ t.pc = "send"}

\* C20: for a string s and a chunk size n >= 1, every chunk of
\* split_message(s, n) has between 1 and n characters, every chunk but the
\* last has n, and the chunks put together in order are s; the chunks are
\* sent one message each, in that order; 9500 characters at 4000 give chunks
\* of 4000, 4000 and 1500.
C20_Chunks(s, n, chunks) ==
    /\ \A k \in 1..Len(chunks) : Len(chunks[k]) \in 1..n
    /\ \A k \in 1..(Len(chunks) - 1) : Len(chunks[k]) = n
    /\ Concatenation(chunks) = s

C20_Split ==
    \A t \in Sending :
        /\ C20_Chunks(t.recommendation, t.chunk_size, t.messages)
        /\ t.answered = SubSeq(t.messages, 1, Len(t.answered))

C20_Sent(u, i) ==
    /\ cmd_get_recommendation_answer(u, i) =>
          tasks'[u][i].answered = Append(tasks[u][i].answered,
                                         tasks[u][i].messages[Len(tasks[u][i].answered) + 1])
    /\ cmd_get_recommendation_return(u, i) => tasks[u][i].answered = tasks[u][i].messages

C20_Example ==
    LET s == [i \in 1..9500 |-> IF i % 3 = 0 THEN "a" ELSE "b"]
        chunks == split_message(s, chunk_size)
    IN  /\ chunk_size = 4000
        /\ [k \in 1..Len(chunks) |-> Len(chunks[k])] = <<4000, 4000, 1500>>
        /\ C20_Chunks(s, chunk_size, chunks)

C20_SplitAndSend ==
    /\ [](C20_Split /\ C20_Example)
    /\ [][\A u \in UserIds, i \in 1..MaxInFlight : C20_Sent(u, i)]_vars

\* C20 witness: a recommendation of 4 characters has been split at 3 into a
\* chunk of 3 and a chunk of 1, and both have been sent.
C20_Witness ==
    \E t \in Sending :
        /\ Len(t.recommendation) = 4
        /\ t.chunk_size = 3
        /\ Len(t.messages) = 2
        /\ Len(t.messages[2]) = 1
        /\ t.answered = t.messages

\* ---------------------------------------------------------- the users table
\* C21: a users row is created only by process_email completing, for a user
\* who has none; a row, once there, stays as it is, whatever is sent; no id
\* ever has two rows.
C21_RowsStay == \A r \in users : r \in users'

C21_CreatedByRegistration ==
    users' # users =>
        /\ event'.handler = "process_email" /\ event'.reply = "registered"
        /\ SelectUser(event'.user) = {}
        /\ \E r \in users' : r.id = event'.user /\ users' = users \cup {r}

C21_UserCreatedOnceImmutable ==
    /\ [][C21_RowsStay /\ C21_CreatedByRegistration]_vars
    /\ [](\A u \in UserIds : Cardinality(SelectUser(u)) <= 1)

\* C21 witness: user 1 sent two emails in a row; the first INSERT made the
\* row, the second was refused, and the row is the one of the first.
C21_Witness ==
    /\ \E r \in users : r.id = 1
    /\ Cardinality(users) = 1
    /\ event = Event("message", 1, "process_email", "error")
    /\ tasks[1] = <<>>

\* ------------------------------------------------------ the reminders table
\* C22: in every reachable state each user has at most one reminders row,
\* whatever toggles, time submissions and ticks have happened.
C22_OneRowPerUser == \A u \in UserIds : Cardinality(SelectReminder(u)) <= 1

\* C22 witness: user 1 set a time, a tick delivered the reminder, and user 1
\* then switched the reminders off: there is one row of user 1.
C22_Witness ==
    /\ attempts = <<<<1, "ok">>>>
    /\ tick_pc = "idle"
    /\ event = Event("callback", 1, "toggle_reminders", "reminders_off")
    /\ Cardinality(SelectReminder(1)) = 1

\* C24: a toggle leaves time and last_sent_date of the user's row as they
\* were, and an accepted time submission leaves last_sent_date as it was.
C24_Toggle(u, data) ==
    toggle_reminders(u, data) =>
        \A r \in SelectReminder(u) :
            \E q \in reminders' :
                /\ q.user_id = u
                /\ q.time = r.time
                /\ q.last_sent_date = r.last_sent_date

C24_TimeSubmitted(u, text) ==
    (process_reminder_time(u, text) /\ event'.reply = "time_set") =>
        \A r \in SelectReminder(u) :
            \E q \in reminders' : q.user_id = u /\ q.last_sent_date = r.last_sent_date

C24_UpdatesPreserveOtherFields ==
    [][\A u \in UserIds :
          /\ \A data \in CallbackData : C24_Toggle(u, data)
          /\ \A text \in ReminderTexts : C24_TimeSubmitted(u, text)]_vars

\* --------------------------------------------- the answer to a failed request
\* C23: the answer sent when the request to GigaChat fails is a fixed text:
\* no part of it is the text of the exception, and it is the same whatever
\* the request raised.
C23_Answer(u, i) ==
    get_recommendation_with_memory_raises(u, i) =>
        /\ \A k \in 1..Len(event'.text) : event'.text[k] \notin GatewayErrors
        /\ \A e \in GatewayErrors : event'.text = ErrorAnswer(WrappedError(e))

C23_FailureAnswerIsFixed ==
    [][\A u \in UserIds, i \in 1..MaxInFlight : C23_Answer(u, i)]_vars

\* ------------------------------------------------ one entry for one run
\* The fields of the diary form in the order of the prompts, and the state
\* that follows each; the last field is followed by no state.
DiaryFields ==
    <<[state |-> DiaryForm_situation, key |-> "situation", next |-> DiaryForm_thought],
      [state |-> DiaryForm_thought, key |-> "thought", next |-> DiaryForm_emotion],
      [state |-> DiaryForm_emotion, key |-> "emotion", next |-> DiaryForm_reaction],
      [state |-> DiaryForm_reaction, key |-> "reaction", next |-> NoState]>>

\* the message is taken as the answer at field f: the form moves on to the
\* next field, or, at the last field, the write of the entry is started
TakenAt(u, f) ==
    /\ fsm_state[u] = f.state
    /\ IF f.next = NoState THEN tasks'[u] # tasks[u] ELSE fsm_state'[u] = f.next

\* a message taken at a field is stored under the key of that field, whatever
\* was there, the other keys stay, and no row is written; the write started
\* at the last field is given the answers as they are then
C25_Field(u, text) ==
    DiaryRunMessage(u, text) =>
        /\ diary' = diary
        /\ \A k \in 1..Len(DiaryFields) :
              TakenAt(u, DiaryFields[k]) =>
                  fsm_data'[u] = [fsm_data[u] EXCEPT ![DiaryFields[k].key] = text]
        /\ tasks'[u] # tasks[u] =>
              tasks'[u] = Append(tasks[u], Task("process_reaction", fsm_data'[u]))
        /\ (fsm_state[u] \in {DiaryFields[k].state : k \in 2..Len(DiaryFields)}
              /\ fsm_state'[u] = fsm_state[u]) =>
                 \A k \in 1..3 : fsm_data'[u][DiaryFields[k].key] = fsm_data[u][DiaryFields[k].key]

\* a step that changes the diary ends a run of user u, open at the last
\* field until then, and appends one row: the four answers given to a write
\* of the run, in their columns, and no recommendation
C25_Commit(u) ==
    (diary' # diary /\ event'.user = u) =>
        /\ fsm_state[u] = DiaryForm_reaction
        /\ fsm_state'[u] = NoState
        /\ Len(diary') = Len(diary) + 1
        /\ SubSeq(diary', 1, Len(diary)) = diary
        /\ \E i \in 1..Len(tasks[u]) :
              LET row == diary'[Len(diary')]
                  user_data == tasks[u][i].user_data
              IN /\ row.user_id = u
                 /\ row.situation = user_data["situation"]
                 /\ row.thought = user_data["thought"]
                 /\ row.emotion = user_data["emotion"]
                 /\ row.reaction = user_data["reaction"]
                 /\ row.recommendation = None
                 /\ \A k \in 1..Len(DiaryFields) : user_data[DiaryFields[k].key] # None

\* C25: every completed run of the diary form inserts exactly one entry for
\* the user, its situation, thought, emotion and reaction being the four
\* answers of that run in order and its recommendation null, also after an
\* earlier run or another form was left part-way with data in the session;
\* no row is written before the last field is accepted.
C25_OneEntryPerRun ==
    [][\A u \in UserIds :
          /\ \A text \in Texts : C25_Field(u, text)
          /\ C25_Commit(u)]_vars

\* ------------------------------------- the entry the recommendation is for
\* the prompt made of the fields of row k
PromptOf(k) ==
    generate_prompt(diary[k].situation, diary[k].thought, diary[k].emotion,
                    diary[k].reaction)

\* a request takes the id and the prompt from one row of the user
C26_Request(u, text) ==
    (cmd_get_recommendation(u, text) /\ tasks'[u] # tasks[u]) =>
        LET t == tasks'[u][Len(tasks'[u])]
        IN /\ t.entry_id \in 1..Len(diary)
           /\ diary[t.entry_id].id = t.entry_id
           /\ diary[t.entry_id].user_id = u
           /\ t.prompt = PromptOf(t.entry_id)

\* the return writes the recommendation to the row the request took, still
\* the row of the prompt, and leaves every other row as it is
C26_Return(u, i, recommendation) ==
    get_recommendation_with_memory_returns(u, i, recommendation, chunk_size) =>
        LET t == tasks[u][i]
        IN /\ Len(diary') = Len(diary)
           /\ t.prompt = PromptOf(t.entry_id)
           /\ diary'[t.entry_id] = [diary[t.entry_id] EXCEPT !.recommendation = recommendation]
           /\ \A k \in 1..Len(diary) : k # t.entry_id => diary'[k] = diary[k]

\* while a request is in flight its row keeps the fields of the prompt
C26_PromptKept ==
    \A u \in UserIds : \A i \in 1..Len(tasks[u]) :
        tasks[u][i].handler = "cmd_get_recommendation" =>
            /\ tasks[u][i].entry_id \in 1..Len(diary)
            /\ tasks[u][i].prompt = PromptOf(tasks[u][i].entry_id)

\* C26: a recommendation returned by GigaChat is stored on the entry whose
\* fields made the prompt and on no other entry, also when the user has
\* added an entry while the request was in flight.
C26_StoredOnPromptEntry ==
    /\ []C26_PromptKept
    /\ [][\A u \in UserIds :
             /\ \A text \in {CmdGetRecommendation, BtnGetRecommendation} : C26_Request(u, text)
             /\ \A i \in 1..MaxInFlight, recommendation \in Recommendations :
                   C26_Return(u, i, recommendation)]_vars

\* the recommendation has just been stored on the first entry, a number as
\* its situation, by the only request, while the second entry, a word as its
\* situation and made a second later, so after the request, has none
C26_Witness ==
    /\ Len(diary) = 2
    /\ diary[1].situation = TxtAge
    /\ diary[2].situation = TxtWord
    /\ TimestampBefore(diary[1].created_at, diary[2].created_at)
    /\ diary[1].recommendation \in Recommendations
    /\ diary[2].recommendation = None
    /\ event.handler = "cmd_get_recommendation"
    /\ event.reply = "none"
    /\ \A i \in 1..Len(tasks[1]) :
          /\ tasks[1][i].entry_id = 1
          /\ tasks[1][i].pc = "send"
    /\ tasks[1] # <<>>

====
